---- MODULE Spec2Model ----
(***************************************************************************)
(* Model of the Last.fm heatmap application.                               *)
(*                                                                         *)
(*  - app.py: fetch_page / fetch_all_pages, the paginated, rate-limited    *)
(*    retrieval of a user's recent tracks (specification Spec).            *)
(*  - heatmap_v1.py: process_scrobble_data / create_heatmap, the           *)
(*    day-of-month x month calendar matrix (specification HeatSpec).       *)
(*                                                                         *)
(* The coroutine fetch_all_pages is cut at its suspension points: the      *)
(* session.get of fetch_page, asyncio.sleep(retry_after) and               *)
(* asyncio.sleep(0.2).  The remote server is the environment: it answers   *)
(* every request with any response of Responses(page).                     *)
(***************************************************************************)
EXTENDS Integers, Sequences, FiniteSets, TLC

\* ----------------------------------------------------------------- bounds
\* max_pages ranges over 0..MaxK
MaxK == 3
\* the server declares totalPages in 0..MaxTotal
MaxTotal == 4
\* a page carries 0..MaxEvents tracks
MaxEvents == 2
\* number of HTTP 429 responses the server gives in one run
Max429 == 2
\* Retry-After header values 0..MaxRetryAfter
MaxRetryAfter == 2

\* fallback of response.headers.get('Retry-After', 5)
DEFAULT_RETRY_AFTER == 5

VARIABLES
    pc,           \* position of fetch_all_pages
    max_pages,    \* the argument max_pages
    page,         \* page being fetched
    total_pages,  \* min(declared total, max_pages), 0 before line 118
    all_tracks,   \* the accumulator
    result,       \* the returned list (meaningful when pc = "done")
    resp,         \* response held by the innermost fetch_page activation
    retry_after,  \* retry_after of the running asyncio.sleep(retry_after)
    waited,       \* duration of the last completed rate-limit sleep
    depth,        \* fetch_page activations that have not returned
    requests,     \* page numbers of the session.get calls, in order
    final,        \* per page, the response fetch_page ended on
    n429          \* 429 responses given so far

fetchVars == <<pc, max_pages, page, total_pages, all_tracks, result, resp,
               retry_after, waited, depth, requests, final, n429>>

\* heatmap_v1.py: process_scrobble_data, then create_heatmap
VARIABLES
    hpc,          \* "idle", "start", "counted", "done", "raised"
    v1_tracks,    \* the raw tracks handed to process_scrobble_data
    daily_counts, \* the table process_scrobble_data returns: date -> Counts
    pivot_table   \* the matrix of create_heatmap: columns and cells

heatVars == <<hpc, v1_tracks, daily_counts, pivot_table>>

\* app.py: process_scrobble_data, then create_heatmap, as index calls them
VARIABLES
    apc,          \* "idle", "start", "counted", "done", "raised"
    app_tracks,   \* the raw tracks handed to process_scrobble_data
    app_counts,   \* the table process_scrobble_data returns: date -> count
    plot_div      \* the figure of create_heatmap: x (dates) and z (counts)

appVars == <<apc, app_tracks, app_counts, plot_div>>

vars == <<fetchVars, heatVars, appVars>>

\* ------------------------------------------------------ responses, payloads
Min(a, b) == IF a <= b THEN a ELSE b

Pages == 1..(MaxK + 1)

\* The Retry-After header: absent, an integer string, or another string.
NoHdr == [k |-> "absent", v |-> 0]
HeaderVals ==
    {NoHdr, [k |-> "bad", v |-> 0]}
        \cup {[k |-> "int", v |-> n] : n \in 0..MaxRetryAfter}

\* A parsed JSON body, by the parts the code reads.
\*   shape: "none" (Python None), "falsy" ({} [] null 0), "nondict" (a truthy
\*          list, string or number), "dict"
\*   rt:    data['recenttracks']: "missing", "nondict", "dict"
\*   attr:  recenttracks['@attr']: "missing", "nondict", "dict"
\*   tpk:   @attr['totalPages']: "missing", "int" (tpv), "badstr" (a
\*          non-numeric string), "badtype" (null, list, object)
\*   trk:   recenttracks['track']: "missing", "list" (of trn tracks), "null",
\*          "number" (a non-zero number)
Body(shape, rt, attr, tpk, tpv, trk, trn) ==
    [shape |-> shape, rt |-> rt, attr |-> attr, tpk |-> tpk, tpv |-> tpv,
     trk |-> trk, trn |-> trn]

None == Body("none", "missing", "missing", "missing", 0, "missing", 0)

TrackVals ==
    {<<"missing", 0>>, <<"null", 0>>, <<"number", 0>>}
        \cup {<<"list", n>> : n \in 0..MaxEvents}

TotalVals ==
    {<<"missing", 0>>, <<"badstr", 0>>, <<"badtype", 0>>}
        \cup {<<"int", n>> : n \in 0..MaxTotal}

\* Bodies of a first page: every field the code reads on lines 105-122 varies.
FirstBodies ==
    {Body("falsy", "missing", "missing", "missing", 0, "missing", 0),
     Body("nondict", "missing", "missing", "missing", 0, "missing", 0),
     Body("dict", "missing", "missing", "missing", 0, "missing", 0),
     Body("dict", "nondict", "missing", "missing", 0, "missing", 0)}
        \cup {Body("dict", "dict", "missing", "missing", 0, t[1], t[2]) :
                t \in TrackVals}
        \cup {Body("dict", "dict", "nondict", "missing", 0, "missing", 0)}
        \cup {Body("dict", "dict", "dict", tp[1], tp[2], t[1], t[2]) :
                tp \in TotalVals, t \in TrackVals}

\* Bodies of a later page: lines 128-131 read 'recenttracks' and 'track' only.
NextBodies ==
    {Body("falsy", "missing", "missing", "missing", 0, "missing", 0),
     Body("nondict", "missing", "missing", "missing", 0, "missing", 0),
     Body("dict", "missing", "missing", "missing", 0, "missing", 0),
     Body("dict", "nondict", "missing", "missing", 0, "missing", 0)}
        \cup {Body("dict", "dict", "missing", "missing", 0, t[1], t[2]) :
                t \in TrackVals}

\* A response, or the exception session.get / response.json() ends with.
\*   kind: "ok200" (status 200, body parsed), "badbody" (status 200, json()
\*         raises), "r429", "http" (any other status), "timeout"
\*         (asyncio.TimeoutError), "connerr" (aiohttp.ClientError), "none"
Resp(kind, hdr, body) == [kind |-> kind, hdr |-> hdr, body |-> body]

NoResp == Resp("none", NoHdr, None)

Responses(p) ==
    {Resp("ok200", NoHdr, b) : b \in IF p = 1 THEN FirstBodies ELSE NextBodies}
        \cup {Resp(k, NoHdr, None) : k \in {"badbody", "http", "timeout", "connerr"}}
        \cup {Resp("r429", h, None) : h \in HeaderVals}

Status(r) ==
    CASE r.kind \in {"ok200", "badbody"} -> 200
      [] r.kind = "r429" -> 429
      [] r.kind = "http" -> 500
      [] OTHER -> 0

\* The tracks of page p as the server sent them: track i of page p is <<p, i>>.
Tracks(p, body) ==
    IF body.trk = "list" THEN [i \in 1..body.trn |-> <<p, i>>] ELSE <<>>

\* ------------------------------------------------------------- fetch_page
\* int(response.headers.get('Retry-After', 5)): ok is FALSE when int() raises
\* ValueError.
ParseRetryAfter(hdr) ==
    CASE hdr.k = "absent" -> [ok |-> TRUE, v |-> DEFAULT_RETRY_AFTER]
      [] hdr.k = "int" -> [ok |-> TRUE, v |-> hdr.v]
      [] OTHER -> [ok |-> FALSE, v |-> 0]

\* What one activation of fetch_page does with the response it got:
\*   "data"  return data                  (lines 59-61)
\*   "retry" sleep, then call itself      (lines 62-67)
\*   "none"  return None                  (lines 68-79; an exception raised in
\*           the try block, json() or int() included, ends in return None)
FetchPageStep(r) ==
    CASE r.kind = "ok200" -> "data"
      [] r.kind = "badbody" -> "none"
      [] Status(r) = 429 ->
            IF ParseRetryAfter(r.hdr).ok THEN "retry" ELSE "none"
      [] OTHER -> "none"

\* The value fetch_page returns when it does not retry.
FetchPageValue(r) == IF FetchPageStep(r) = "data" THEN r.body ELSE None

\* ---------------------------------------------------------- fetch_all_pages
\* Truthy with the test of line 105 / 128 left out: every value passes.
TruthyAlways(data) == data.shape \in {"none", "falsy", "nondict", "dict"}

\* Python truth value of what fetch_page returned.
Truthy(data) == data.shape \in {"nondict", "dict"}

\* Extend putting the new tracks in front of the accumulated ones.
ExtendFront(acc, tracks) == tracks \o acc

\* all_tracks.extend(tracks)
Extend(acc, tracks) == acc \o tracks

\* ParseTotalPages with attr['totalPages'] in place of attr.get('totalPages',
\* 1), as heatmap_v1.py line 46 reads it: a missing field is a KeyError,
\* caught on line 113.
ParseTotalPagesNoDefault(data) ==
    CASE data.attr = "nondict" -> [kind |-> "raise", v |-> 0]
      [] data.attr = "missing" -> [kind |-> "ValueError", v |-> 0]
      [] data.tpk = "missing" -> [kind |-> "ValueError", v |-> 0]
      [] data.tpk = "int" -> [kind |-> "ok", v |-> data.tpv]
      [] data.tpk = "badstr" -> [kind |-> "ValueError", v |-> 0]
      [] OTHER -> [kind |-> "raise", v |-> 0]

\* int(attr.get('totalPages', 1)) with recent_tracks.get('@attr', {}).
\*   kind "ok" (v), "ValueError" (caught on line 113), "raise" (an
\*   AttributeError or TypeError, which line 113 does not catch)
ParseTotalPages(data) ==
    CASE data.attr = "nondict" -> [kind |-> "raise", v |-> 0]
      [] data.attr = "missing" -> [kind |-> "ok", v |-> 1]
      [] data.tpk = "missing" -> [kind |-> "ok", v |-> 1]
      [] data.tpk = "int" -> [kind |-> "ok", v |-> data.tpv]
      [] data.tpk = "badstr" -> [kind |-> "ValueError", v |-> 0]
      [] OTHER -> [kind |-> "raise", v |-> 0]

\* Lines 105-123 on the value of the first page:
\*   "empty"  return []
\*   "raise"  an exception leaves fetch_all_pages
\*   "go"     total pages clamped, tracks of page 1 accumulated
FirstPage(data, k) ==
    LET out(kind, total, tracks) ==
            [kind |-> kind, total |-> total, tracks |-> tracks]
        tp == ParseTotalPages(data)
    IN  CASE ~Truthy(data) -> out("empty", 0, <<>>)
          [] data.shape # "dict" -> out("raise", 0, <<>>)
          [] data.rt = "missing" -> out("empty", 0, <<>>)
          [] data.rt = "nondict" -> out("raise", 0, <<>>)
          [] tp.kind = "raise" -> out("raise", 0, <<>>)
          [] tp.kind = "ValueError" -> out("empty", 0, <<>>)
          [] data.trk \in {"null", "number"} ->
                out("raise", Min(tp.v, k), <<>>)
          [] OTHER -> out("go", Min(tp.v, k), Tracks(1, data))

\* NextPage without the break of lines 132-135: an empty page is skipped.
NextPageNoStop(p, data) ==
    LET out(kind, tracks) == [kind |-> kind, tracks |-> tracks]
    IN  CASE ~Truthy(data) -> out("break", <<>>)
          [] data.shape # "dict" -> out("raise", <<>>)
          [] data.rt = "nondict" -> out("raise", <<>>)
          [] data.trk = "number" -> out("raise", <<>>)
          [] OTHER -> out("extend", Tracks(p, data))

\* NextPage without the break of lines 136-139: a failed page is skipped, as
\* heatmap_v1.py's loop does.
NextPageSkipFailed(p, data) ==
    LET out(kind, tracks) == [kind |-> kind, tracks |-> tracks]
    IN  CASE ~Truthy(data) -> out("extend", <<>>)
          [] data.shape # "dict" -> out("raise", <<>>)
          [] data.rt = "missing" -> out("break", <<>>)
          [] data.rt = "nondict" -> out("raise", <<>>)
          [] data.trk = "number" -> out("raise", <<>>)
          [] data.trk = "list" /\ data.trn > 0 -> out("extend", Tracks(p, data))
          [] OTHER -> out("break", <<>>)

\* Lines 128-139 on the value of page p >= 2:
\*   "extend" tracks accumulated, the loop goes on to the pacing sleep
\*   "break"  the loop ends
\*   "raise"  an exception leaves fetch_all_pages
NextPage(p, data) ==
    LET out(kind, tracks) == [kind |-> kind, tracks |-> tracks]
    IN  CASE ~Truthy(data) -> out("break", <<>>)
          [] data.shape # "dict" -> out("raise", <<>>)
          [] data.rt = "missing" -> out("break", <<>>)
          [] data.rt = "nondict" -> out("raise", <<>>)
          [] data.trk = "number" -> out("raise", <<>>)
          [] data.trk = "list" /\ data.trn > 0 -> out("extend", Tracks(p, data))
          [] OTHER -> out("break", <<>>)

\* range(2, total_pages + 1) has a next value after page p
HasNext(p, total) == p + 1 <= total

\* ------------------------------------------------- heatmap_v1.py, calendar
\* tracks per input list
MaxTracks == 3

\* A calendar date <<year, month, day>> and a month <<year, month>>.
Dates ==
    {<<2023, 2, 28>>, <<2023, 12, 31>>, <<2024, 2, 1>>, <<2024, 2, 29>>,
     <<2024, 3, 1>>, <<2024, 4, 30>>}

MonthOf(d) == <<d[1], d[2]>>
DayOf(d) == d[3]

IsLeap(y) == (y % 4 = 0 /\ y % 100 # 0) \/ y % 400 = 0

\* Period.days_in_month
DaysInMonth(m) ==
    CASE m[2] \in {4, 6, 9, 11} -> 30
      [] m[2] = 2 -> IF IsLeap(m[1]) THEN 29 ELSE 28
      [] OTHER -> 31

MonthBefore(a, b) == a[1] < b[1] \/ (a[1] = b[1] /\ a[2] < b[2])

\* A raw track, by what process_scrobble_data reads of it.  The timestamp
\* field is date['#text'] for heatmap_v1.py and date['uts'] for app.py.
\*   np: '@attr' carries nowplaying == 'true'
\*   dk: "nodate" (no 'date' key), "notext" (a date without the timestamp
\*       field), "bad" (a timestamp that does not parse), "ok" (a timestamp
\*       that parses, d being its calendar date)
Track(np, dk, d) == [np |-> np, dk |-> dk, d |-> d]

NoDate == <<0, 0, 0>>

RawTracks ==
    {Track(FALSE, "ok", d) : d \in Dates}
        \cup {Track(FALSE, k, NoDate) : k \in {"nodate", "notext", "bad"}}
        \cup {Track(TRUE, "nodate", NoDate), Track(TRUE, "ok", <<2024, 3, 1>>),
              Track(TRUE, "bad", NoDate)}

TrackLists == UNION {[1..n -> RawTracks] : n \in 0..MaxTracks}

\* A cell of the matrix: a number, or the missing value (NaN / None).
Count(n) == [valid |-> TRUE, count |-> n]
NaN == [valid |-> FALSE, count |-> 0]

NoPivot == [columns |-> <<>>, z |-> <<>>]

\* process_scrobble_data (heatmap_v1.py lines 61-74).
\*   kind "raise": df['date'] raises KeyError when no track has a 'date', and
\*   pd.to_datetime raises ValueError on a '#text' it cannot parse.
\*   Otherwise the table: one row per Day with the number of tracks of that
\*   day; a track whose date is missing (NaT) is in no group.
process_scrobble_data_v1(ts) ==
    LET n == Len(ts)
        days == {ts[i].d : i \in {j \in 1..n : ts[j].dk = "ok"}}
        size(d) == Cardinality({i \in 1..n : ts[i].dk = "ok" /\ ts[i].d = d})
    IN  CASE n = 0 -> [kind |-> "ok", table |-> <<>>]
          [] \A i \in 1..n : ts[i].dk = "nodate" ->
                [kind |-> "raise", table |-> <<>>]
          [] \E i \in 1..n : ts[i].dk = "bad" ->
                [kind |-> "raise", table |-> <<>>]
          [] OTHER -> [kind |-> "ok", table |-> [d \in days |-> size(d)]]

\* The months of a set, in ascending order (the column order of pivot_table).
RECURSIVE SortMonths(_)
SortMonths(ms) ==
    IF ms = {} THEN <<>>
    ELSE LET first == CHOOSE m \in ms : \A o \in ms : o = m \/ MonthBefore(m, o)
         IN  <<first>> \o SortMonths(ms \ {first})

\* daily_counts.pivot_table(values='Counts', index='DayOfMonth',
\* columns='Month', fill_value=0): rows are the days of month that occur,
\* columns the months that occur, a combination that does not occur is 0.
PivotCell(dc, day, month) ==
    LET d == <<month[1], month[2], day>>
    IN  IF d \in DOMAIN dc THEN Count(dc[d]) ELSE Count(0)

\* pivot_table.reindex(full_index): a day of month that is no row is NaN.
Reindex(dc, day, month) ==
    IF day \in {DayOf(d) : d \in DOMAIN dc}
        THEN PivotCell(dc, day, month)
        ELSE NaN

\* Lines 89-92: days 29..31 beyond the month's length are set to None.
MissingDays(cell, day, month) ==
    IF day \in 29..31 /\ day > DaysInMonth(month) THEN NaN ELSE cell

\* create_heatmap (heatmap_v1.py lines 76-95): the matrix z, or NoPivot when
\* daily_counts is empty.
create_heatmap_v1(dc) ==
    IF DOMAIN dc = {} THEN NoPivot
    ELSE LET months == {MonthOf(d) : d \in DOMAIN dc}
         IN  [columns |-> SortMonths(months),
              z |-> [m \in months |->
                        [day \in 1..31 |->
                            MissingDays(Reindex(dc, day, m), day, m)]]]

\* ------------------------------------------------- app.py, daily counts
NoFigure == [x |-> <<>>, z |-> <<>>]

\* Lines 156-162 of app.py on one track:
\*   "skip"   a currently playing track (line 159), or a track without a
\*            timestamp (line 161)
\*   "raise"  int(scrobble_time) raises ValueError (line 162)
\*   "append" datetime.fromtimestamp(int(scrobble_time)) is appended
ScrobbleStep(t) ==
    CASE t.np -> "skip"
      [] t.dk \in {"nodate", "notext"} -> "skip"
      [] t.dk = "bad" -> "raise"
      [] OTHER -> "append"

\* process_scrobble_data (app.py lines 155-172): the loop raises at the first
\* track whose step raises; otherwise the table has one row per date with the
\* number of appended scrobbles of that date (empty when there is none).
process_scrobble_data(ts) ==
    LET n == Len(ts)
        appended == {i \in 1..n : ScrobbleStep(ts[i]) = "append"}
        days == {ts[i].d : i \in appended}
        size(d) == Cardinality({i \in appended : ts[i].d = d})
    IN  IF \E i \in 1..n : ScrobbleStep(ts[i]) = "raise"
            THEN [kind |-> "raise", table |-> <<>>]
            ELSE [kind |-> "ok", table |-> [d \in days |-> size(d)]]

DateBefore(a, b) ==
    \/ a[1] < b[1]
    \/ a[1] = b[1] /\ a[2] < b[2]
    \/ a[1] = b[1] /\ a[2] = b[2] /\ a[3] < b[3]

\* The dates of a set in ascending order (the row order groupby gives).
RECURSIVE SortDates(_)
SortDates(ds) ==
    IF ds = {} THEN <<>>
    ELSE LET first == CHOOSE d \in ds : \A o \in ds : o = d \/ DateBefore(d, o)
         IN  <<first>> \o SortDates(ds \ {first})

\* create_heatmap (app.py lines 185-198): no figure ("No data available")
\* when daily_counts is empty, else a single row with one cell per date.
create_heatmap(dc) ==
    LET x == SortDates(DOMAIN dc)
    IN  IF DOMAIN dc = {} THEN NoFigure
        ELSE [x |-> x, z |-> [i \in 1..Len(x) |-> dc[x[i]]]]

AppIdle ==
    /\ apc = "idle"
    /\ app_tracks = <<>>
    /\ app_counts = <<>>
    /\ plot_div = NoFigure

HeatIdle ==
    /\ hpc = "idle"
    /\ v1_tracks = <<>>
    /\ daily_counts = <<>>
    /\ pivot_table = NoPivot

FetchInit ==
    /\ pc = "start"
    /\ max_pages \in 0..MaxK
    /\ page = 0
    /\ total_pages = 0
    /\ all_tracks = <<>>
    /\ result = <<>>
    /\ resp = NoResp
    /\ retry_after = 0
    /\ waited = 0
    /\ depth = 0
    /\ requests = <<>>
    /\ final = [p \in Pages |-> NoResp]
    /\ n429 = 0

\* Lines 101-104: the call of fetch_page(session, url, params, 1).
CallFirstPage ==
    /\ pc = "start"
    /\ pc' = "request"
    /\ page' = 1
    /\ all_tracks' = <<>>
    /\ UNCHANGED <<max_pages, total_pages, result, resp, retry_after, waited,
                   depth, requests, final, n429>>
    /\ UNCHANGED <<heatVars, appVars>>

\* Line 58: one activation of fetch_page issues session.get for `page`.
IssueRequest ==
    /\ pc = "request"
    /\ pc' = "await"
    /\ requests' = Append(requests, page)
    /\ depth' = depth + 1
    /\ UNCHANGED <<max_pages, page, total_pages, all_tracks, result, resp,
                   retry_after, waited, final, n429>>
    /\ UNCHANGED <<heatVars, appVars>>

\* The server answers (or the 10 s timeout or a connection error ends the wait).
Respond ==
    /\ pc = "await"
    /\ \E r \in Responses(page) :
        /\ r.kind = "r429" => n429 < Max429
        /\ resp' = r
        /\ n429' = IF r.kind = "r429" THEN n429 + 1 ELSE n429
    /\ pc' = "handle"
    /\ UNCHANGED <<max_pages, page, total_pages, all_tracks, result,
                   retry_after, waited, depth, requests, final>>
    /\ UNCHANGED <<heatVars, appVars>>

\* Lines 62-66: a 429 whose header parses starts asyncio.sleep(retry_after).
RateLimited ==
    /\ pc = "handle"
    /\ FetchPageStep(resp) = "retry"
    /\ pc' = "sleep"
    /\ retry_after' = ParseRetryAfter(resp.hdr).v
    /\ UNCHANGED <<max_pages, page, total_pages, all_tracks, result, resp,
                   waited, depth, requests, final, n429>>
    /\ UNCHANGED <<heatVars, appVars>>

\* Line 67: the sleep is over, fetch_page calls itself for the same page.
RetrySamePage ==
    /\ pc = "sleep"
    /\ pc' = "request"
    /\ waited' = retry_after
    /\ resp' = NoResp
    /\ UNCHANGED <<max_pages, page, total_pages, all_tracks, result,
                   retry_after, depth, requests, final, n429>>
    /\ UNCHANGED <<heatVars, appVars>>

\* fetch_page returns for page 1 (every nested activation returns the same
\* value), then lines 105-126.
ReturnFirstPage ==
    /\ pc = "handle"
    /\ page = 1
    /\ FetchPageStep(resp) # "retry"
    /\ LET o == FirstPage(FetchPageValue(resp), max_pages) IN
        /\ total_pages' = o.total
        /\ all_tracks' = Extend(all_tracks, o.tracks)
        /\ pc' = CASE o.kind = "raise" -> "raised"
                   [] o.kind = "go" /\ HasNext(1, o.total) -> "request"
                   [] OTHER -> "done"
        /\ page' = IF o.kind = "go" /\ HasNext(1, o.total) THEN 2 ELSE page
        /\ result' = IF o.kind = "go" /\ ~HasNext(1, o.total)
                        THEN Extend(all_tracks, o.tracks) ELSE <<>>
    /\ final' = [final EXCEPT ![page] = resp]
    /\ depth' = 0
    /\ resp' = NoResp
    /\ UNCHANGED <<max_pages, retry_after, waited, requests, n429>>
    /\ UNCHANGED <<heatVars, appVars>>

\* fetch_page returns for a page >= 2, then lines 128-141 up to the pacing
\* sleep, or the break and line 143.
ReturnNextPage ==
    /\ pc = "handle"
    /\ page >= 2
    /\ FetchPageStep(resp) # "retry"
    /\ LET o == NextPage(page, FetchPageValue(resp)) IN
        /\ all_tracks' = Extend(all_tracks, o.tracks)
        /\ pc' = CASE o.kind = "raise" -> "raised"
                   [] o.kind = "extend" -> "pace"
                   [] OTHER -> "done"
        /\ result' = IF o.kind = "break" THEN all_tracks ELSE result
    /\ final' = [final EXCEPT ![page] = resp]
    /\ depth' = 0
    /\ resp' = NoResp
    /\ UNCHANGED <<max_pages, page, total_pages, retry_after, waited,
                   requests, n429>>
    /\ UNCHANGED <<heatVars, appVars>>

\* Line 141 is over: the loop takes its next page, or ends and line 143
\* returns.
PaceDone ==
    /\ pc = "pace"
    /\ IF HasNext(page, total_pages)
          THEN /\ page' = page + 1
               /\ pc' = "request"
               /\ result' = result
          ELSE /\ page' = page
               /\ pc' = "done"
               /\ result' = all_tracks
    /\ UNCHANGED <<max_pages, total_pages, all_tracks, resp, retry_after,
                   waited, depth, requests, final, n429>>
    /\ UNCHANGED <<heatVars, appVars>>

Next ==
    \/ CallFirstPage
    \/ IssueRequest
    \/ Respond
    \/ RateLimited
    \/ RetrySamePage
    \/ ReturnFirstPage
    \/ ReturnNextPage
    \/ PaceDone


Init == FetchInit /\ HeatIdle /\ AppIdle

Spec == Init /\ [][Next]_vars

\* Every coroutine step is taken once it can be: the event loop resumes a
\* coroutine whose await has completed, every request ends in a response or in
\* the 10 s timeout of line 58, and a server sends at most Max429 answers 429
\* in a row.
FairSpec == Spec /\ WF_vars(Next)

\* The caller cancels the task while fetch_all_pages is suspended at an await:
\* session.get / response.json() (lines 58-61), the rate-limit sleep (line 66)
\* or the pacing sleep (line 141). asyncio raises CancelledError at that await.
\* CancelledError is a BaseException: the handlers of lines 71-79 do not catch
\* it, fetch_all_pages has no handler at all, and the error leaves the call.
\* all_tracks, a local of the abandoned frame, is kept here only to be compared.
Cancel ==
    /\ pc \in {"await", "sleep", "pace"}
    /\ pc' = "cancelled"
    /\ depth' = 0
    /\ resp' = NoResp
    /\ UNCHANGED <<max_pages, page, total_pages, all_tracks, result,
                   retry_after, waited, requests, final, n429>>
    /\ UNCHANGED <<heatVars, appVars>>

CancelNext ==
    \/ Next
    \/ Cancel

CancelSpec == Init /\ [][CancelNext]_vars

\* ------------------------------------------------------------ heatmap_v1.py
FetchIdle ==
    /\ pc = "idle"
    /\ max_pages = 0
    /\ page = 0
    /\ total_pages = 0
    /\ all_tracks = <<>>
    /\ result = <<>>
    /\ resp = NoResp
    /\ retry_after = 0
    /\ waited = 0
    /\ depth = 0
    /\ requests = <<>>
    /\ final = [p \in Pages |-> NoResp]
    /\ n429 = 0

HeatInit ==
    /\ FetchIdle
    /\ AppIdle
    /\ hpc = "start"
    /\ v1_tracks \in TrackLists
    /\ daily_counts = <<>>
    /\ pivot_table = NoPivot

\* index (lines 166-167): daily_counts = process_scrobble_data(all_tracks)
ProcessScrobbleData ==
    /\ hpc = "start"
    /\ LET r == process_scrobble_data_v1(v1_tracks) IN
        /\ hpc' = IF r.kind = "raise" THEN "raised" ELSE "counted"
        /\ daily_counts' = r.table
    /\ UNCHANGED <<v1_tracks, pivot_table>>
    /\ UNCHANGED <<fetchVars, appVars>>

\* index (line 168): create_heatmap(daily_counts, palette), up to line 95
CreateHeatmap ==
    /\ hpc = "counted"
    /\ pivot_table' = create_heatmap_v1(daily_counts)
    /\ hpc' = "done"
    /\ UNCHANGED <<v1_tracks, daily_counts>>
    /\ UNCHANGED <<fetchVars, appVars>>

HeatNext ==
    \/ ProcessScrobbleData
    \/ CreateHeatmap

HeatSpec == HeatInit /\ [][HeatNext]_vars

\* ------------------------------------------------------------------ app.py
AppInit ==
    /\ FetchIdle
    /\ HeatIdle
    /\ apc = "start"
    /\ app_tracks \in TrackLists
    /\ app_counts = <<>>
    /\ plot_div = NoFigure

\* process_scrobble_data(all_tracks) is applied (app.py lines 155-172).
AppProcessScrobbleData ==
    /\ apc = "start"
    /\ LET r == process_scrobble_data(app_tracks) IN
        /\ apc' = IF r.kind = "raise" THEN "raised" ELSE "counted"
        /\ app_counts' = r.table
    /\ UNCHANGED <<app_tracks, plot_div>>
    /\ UNCHANGED <<fetchVars, heatVars>>

\* create_heatmap(daily_counts, palette) is applied (app.py lines 185-198).
AppCreateHeatmap ==
    /\ apc = "counted"
    /\ plot_div' = create_heatmap(app_counts)
    /\ apc' = "done"
    /\ UNCHANGED <<app_tracks, app_counts>>
    /\ UNCHANGED <<fetchVars, heatVars>>

AppNext ==
    \/ AppProcessScrobbleData
    \/ AppCreateHeatmap

AppSpec == AppInit /\ [][AppNext]_vars


\* ================================================================ properties
Max(a, b) == IF a >= b THEN a ELSE b

\* The distinct page numbers requested so far.
RequestedPages == {requests[i] : i \in 1..Len(requests)}

\* A fetch of a page that ends in a failure: a status other than 200 and 429,
\* a timeout, a connection error, or a body that does not parse.
FailureKinds == {"badbody", "http", "timeout", "connerr"}

\* The tracks of page p in the response its fetch ended on.
PageTracks(p) ==
    IF final[p].kind = "ok200" THEN Tracks(p, final[p].body) ELSE <<>>

\* The tracks of pages 1..m, in page order.
RECURSIVE ConcatPages(_)
ConcatPages(m) ==
    IF m = 0 THEN <<>> ELSE ConcatPages(m - 1) \o PageTracks(m)

\* A 200 response that is a JSON object with a 'recenttracks' object.
HasRecentTracks(r) ==
    r.kind = "ok200" /\ r.body.shape = "dict" /\ r.body.rt = "dict"

\* C1: for every max_pages = k >= 0 and every server behaviour, the number of
\* distinct pages requested is at most k (429 re-requests do not count).
C1_AtMostMaxPages == Cardinality(RequestedPages) <= max_pages

\* C2: if the fetch of page 1 ends in a failure, the call returns the empty
\* list and no page >= 2 is ever requested.
C2_FirstPageFailure ==
    final[1].kind \in FailureKinds =>
        /\ pc = "done"
        /\ result = <<>>
        /\ RequestedPages = {1}

C2_Witness ==
    /\ final[1].kind = "timeout"
    /\ pc = "done"
    /\ Len(requests) = 2
    /\ max_pages >= 2

\* C3: if page n, 2 <= n <= effective total, answers successfully with an
\* empty track list, no page beyond n is requested and the call returns the
\* tracks of pages 1..n-1.
C3_EmptyPageStops ==
    \A n \in Pages :
        ( /\ 2 <= n /\ n <= total_pages
          /\ HasRecentTracks(final[n])
          /\ \/ final[n].body.trk = "missing"
             \/ final[n].body.trk = "list" /\ final[n].body.trn = 0 )
        => /\ pc = "done"
           /\ result = ConcatPages(n - 1)
           /\ \A i \in 1..Len(requests) : requests[i] <= n

C3_Witness ==
    /\ pc = "done"
    /\ HasRecentTracks(final[2])
    /\ final[2].body.trk = "list" /\ final[2].body.trn = 0
    /\ total_pages >= 3
    /\ Len(result) > 0

\* C4: when the fetch of a page n >= 2 ends in a failure, page n is not
\* requested again, no page beyond n is requested, and the call returns
\* exactly the tracks of pages 1..n-1.
C4_FailureKeepsAccumulated ==
    \A n \in Pages :
        (n >= 2 /\ final[n].kind \in FailureKinds)
        => /\ pc = "done"
           /\ result = ConcatPages(n - 1)
           /\ requests[Len(requests)] = n
           /\ \A i \in 1..Len(requests) : requests[i] <= n

C4_Witness ==
    /\ pc = "done"
    /\ final[3].kind \in FailureKinds
    /\ total_pages >= 3
    /\ Len(result) > 1

\* The wait a 429 response indicates: its Retry-After value, or the
\* 5 second fallback when the header is absent or does not parse.
IndicatedWait(hdr) == IF hdr.k = "int" THEN hdr.v ELSE 5

\* C5: every 429 response to page n is followed by a wait of at least the
\* indicated duration and then by a new request for the same page n; until
\* page n has a non-429 outcome no other page is requested and pagination does
\* not stop.
C5_RateLimitRetriesSamePage ==
    [][ /\ (pc = "handle" /\ resp.kind = "r429") =>
            /\ pc' = "sleep"
            /\ page' = page
            /\ requests' = requests
        /\ pc = "sleep" =>
            /\ pc' = "request"
            /\ page' = page
            /\ requests' = requests
            /\ waited' >= IndicatedWait(resp.hdr)
        /\ pc = "request" =>
            /\ pc' = "await"
            /\ requests' = Append(requests, page) ]_vars

\* C10: on a 429 response fetch_page takes the rate-limited path (wait, then
\* retry the same page) whether the wait-time header parses (wait that
\* value), is absent (wait 5 seconds) or does not parse (wait 5 seconds); the
\* page is never reported as failed.
C10_429IsRateLimited ==
    (pc = "handle" /\ resp.kind = "r429") =>
        /\ FetchPageStep(resp) = "retry"
        /\ ParseRetryAfter(resp.hdr).v = IndicatedWait(resp.hdr)

\* C8 (as amended): the returned list is the concatenation, in ascending page
\* order, of the track lists of a prefix 1..m of the pages, every one of them
\* fetched successfully and contributing once, 429 re-requests included; m is
\* at most the effective total, or 1 when the effective total is below 1.
C8_PrefixInPageOrder ==
    pc = "done" =>
        \E m \in 0..Max(1, total_pages) :
            /\ result = ConcatPages(m)
            /\ \A p \in 1..m : final[p].kind = "ok200"

\* C8 (as claimed): the same with m <= effective total, here for
\* max_pages >= 1.
C8_Original ==
    (pc = "done" /\ max_pages >= 1) =>
        \E m \in 0..total_pages :
            /\ result = ConcatPages(m)
            /\ \A p \in 1..m : final[p].kind = "ok200"

C8_Witness ==
    /\ pc = "done"
    /\ Len(requests) > page
    /\ page >= 3
    /\ result = ConcatPages(3)
    /\ \A p \in 1..3 : Len(PageTracks(p)) > 0

\* A first page fetched successfully: a JSON object whose 'recenttracks' is an
\* object with a usable '@attr' and a 'track' that is a list or absent.
FirstPageUsable ==
    /\ HasRecentTracks(final[1])
    /\ final[1].body.attr \in {"missing", "dict"}
    /\ final[1].body.trk \in {"missing", "list"}

TotalPagesMissing ==
    final[1].body.attr = "missing" \/ final[1].body.tpk = "missing"

TotalPagesNonNumeric ==
    final[1].body.attr = "dict" /\ final[1].body.tpk = "badstr"

\* C9 (as amended): when page 1 is fetched successfully and its metadata has
\* no total page count, the total is taken as 1: the tracks of page 1 are
\* returned and no further page is requested.  When the total page count is a
\* non-numeric string, the empty list is returned and no further page is
\* requested.
C9_TotalPagesMissingOrBad ==
    FirstPageUsable =>
        /\ TotalPagesMissing =>
            /\ pc = "done"
            /\ result = PageTracks(1)
            /\ RequestedPages = {1}
        /\ TotalPagesNonNumeric =>
            /\ pc = "done"
            /\ result = <<>>
            /\ RequestedPages = {1}

\* C9 (as claimed): missing or non-numeric, the total is taken as 1, here for
\* max_pages >= 1.
C9_Original ==
    ( /\ max_pages >= 1
      /\ FirstPageUsable
      /\ (TotalPagesMissing \/ TotalPagesNonNumeric) ) =>
        /\ pc = "done"
        /\ result = PageTracks(1)
        /\ RequestedPages = {1}

C9_Witness ==
    /\ FirstPageUsable
    /\ TotalPagesMissing
    /\ pc = "done"
    /\ max_pages >= 2
    /\ Len(result) > 0

\* ------------------------------------------------- properties, heatmap_v1.py
\* The month after m.
NextMonth(m) == IF m[2] = 12 THEN <<m[1] + 1, 1>> ELSE <<m[1], m[2] + 1>>

\* The calendar months from a to b inclusive, a not after b.
RECURSIVE MonthSpan(_, _)
MonthSpan(a, b) ==
    IF a = b THEN <<a>> ELSE <<a>> \o MonthSpan(NextMonth(a), b)

EventMonths == {MonthOf(d) : d \in DOMAIN daily_counts}

EarliestMonth ==
    CHOOSE m \in EventMonths : \A o \in EventMonths : o = m \/ MonthBefore(m, o)

LatestMonth ==
    CHOOSE m \in EventMonths : \A o \in EventMonths : o = m \/ MonthBefore(o, m)

\* C6: in the matrix of create_heatmap, cell (d, M) is the missing value if
\* and only if d > daysInMonth(M); every other cell is the count of that date,
\* 0 when no track fell on it.
C6_InvalidIffBeyondMonth ==
    hpc = "done" =>
        \A m \in DOMAIN pivot_table.z : \A day \in 1..31 :
            LET cell == pivot_table.z[m][day]
                date == <<m[1], m[2], day>>
            IN  /\ ~cell.valid <=> day > DaysInMonth(m)
                /\ cell.valid =>
                    cell.count = IF date \in DOMAIN daily_counts
                                    THEN daily_counts[date] ELSE 0

\* C7: for a non-empty event set the month columns are exactly the contiguous
\* chronological sequence of months from the month of the earliest event to
\* the month of the latest, a month without events included.
C7_ContiguousMonths ==
    (hpc = "done" /\ EventMonths # {}) =>
        pivot_table.columns = MonthSpan(EarliestMonth, LatestMonth)

\* ------------------------------------------ properties, daily counts
NotNowPlaying(t) == ~t.np

\* The list with all currently playing tracks removed.
WithoutNowPlaying(ts) == SelectSeq(ts, NotNowPlaying)

ParsableTimestamp(t) == t.dk = "ok"

\* The list restricted to the tracks whose timestamp parses.
WithParsableTimestamp(ts) == SelectSeq(ts, ParsableTimestamp)

\* A canonical event: not currently playing, with a timestamp that parses.
Canonical(t) == ~t.np /\ t.dk = "ok"

NoCanonicalEvent(ts) == \A i \in 1..Len(ts) : ~Canonical(ts[i])

\* What process_scrobble_data of app.py ended with.
AppOutcome ==
    [kind |-> IF apc = "raised" THEN "raise" ELSE "ok", table |-> app_counts]

\* C11: a currently playing track adds nothing to any daily count: the daily
\* counts of process_scrobble_data are those of the list with all currently
\* playing tracks removed.  Stated for heatmap_v1.py, whose counts fill the
\* cells of the calendar matrix.
C11_NowPlayingAddsNothing ==
    hpc \in {"counted", "done"} =>
        daily_counts =
            process_scrobble_data_v1(WithoutNowPlaying(v1_tracks)).table

\* C11 for process_scrobble_data of app.py (specification AppSpec).
C11_NowPlayingAddsNothingApp ==
    apc # "start" =>
        AppOutcome = process_scrobble_data(WithoutNowPlaying(app_tracks))

\* C12: process_scrobble_data of app.py never raises, and a track whose
\* timestamp is missing or does not parse is left out: the result is that of
\* the list restricted to the tracks with a parsable timestamp.
C12_BadTimestampsDropped ==
    apc # "start" =>
        /\ apc # "raised"
        /\ app_counts =
            process_scrobble_data(WithParsableTimestamp(app_tracks)).table

\* C16: when no canonical event exists (no raw track, or every track dropped
\* by normalization), process_scrobble_data returns an empty table and
\* create_heatmap its empty outcome, with no month column and no cell.
C16_NoEventsNoMatrix ==
    (NoCanonicalEvent(v1_tracks) /\ hpc # "start") =>
        /\ hpc # "raised"
        /\ daily_counts = <<>>
        /\ pivot_table = NoPivot

\* C16 for process_scrobble_data of app.py (specification AppSpec).
C16_NoEventsEmptyTableApp ==
    (NoCanonicalEvent(app_tracks) /\ apc # "start") =>
        /\ apc # "raised"
        /\ app_counts = <<>>

\* ------------------------------------------- properties: how the fetch ends
\* What fetch_all_pages hands to its caller: a returned list, or an exception.
FetchOutcome ==
    [kind |-> CASE pc = "done" -> "return"
                [] pc \in {"raised", "cancelled"} -> "raise"
                [] OTHER -> "running",
     value |-> result]

\* First pages of a user with zero events: a well-formed answer whose track
\* list is empty and whose page count is absent, 0 or 1.
ZeroEventBodies ==
    {b \in FirstBodies :
        /\ b.shape = "dict" /\ b.rt = "dict"
        /\ b.attr \in {"missing", "dict"}
        /\ b.tpk \in {"missing", "int"} /\ b.tpv <= 1
        /\ b.trk = "list" /\ b.trn = 0}

\* What the call returns on such a first page (lines 105-126 and 143).
ZeroEventOutcomes(k) ==
    {[kind |-> "return", value |-> Extend(<<>>, FirstPage(b, k).tracks)] :
        b \in {z \in ZeroEventBodies : FirstPage(z, k).kind = "go"}}

\* C13: when the fetch of page 1 fails, what fetch_all_pages hands to its
\* caller differs from what it hands over when page 1 succeeds and the user
\* has zero events.
C13_FailureDistinguishable ==
    (pc = "done" /\ final[1].kind \in FailureKinds) =>
        FetchOutcome \notin ZeroEventOutcomes(max_pages)

\* C14: fetch_all_pages never ends by raising, whatever the outcomes of its
\* requests are.
C14_NeverRaises == pc # "raised"

\* C15: cancelled while suspended, with events of at least one page
\* accumulated, the call ends by returning the accumulated events.
C15_CancelReturnsAccumulated ==
    (pc = "cancelled" /\ page >= 2 /\ Len(all_tracks) > 0) =>
        FetchOutcome = [kind |-> "return", value |-> all_tracks]

\* C17: every run eventually reaches Aborted or Done, that is, returns a list,
\* and issues no request after that.
C17_ReachesAbortedOrDone ==
    /\ <>(pc = "done")
    /\ [][pc = "done" => requests' = requests]_vars

\* C18: the request for page n+1 is issued only after the pacing delay that
\* follows the successful fetch of page n has elapsed, for every n >= 1: the
\* loop moves on to page n+1 only at the end of the sleep of line 141.
C18_PacedBeforeNextPage ==
    [][(page >= 1 /\ page' = page + 1) => pc = "pace"]_vars

\* C19: at every moment at most one activation of fetch_page has not returned.
C19_AtMostOneActivation == depth <= 1

====
